---- MODULE Spec2Model ----
(***************************************************************************)
(* Model of the FEN decoder of chess-rs (src/game/mod.rs): Board::from_fen *)
(* scans the piece-placement field byte by byte, Game::from_fen decodes    *)
(* the remaining fields.  Strings are sequences of one-character strings.  *)
(***************************************************************************)
EXTENDS Integers, Sequences, FiniteSets, TLC

VARIABLES
    fen,             \* the &str handed to Game::from_fen
    pc,              \* position of the call
    pos,             \* Board::from_fen: the placement field popped from the queue
    i,               \* Board::from_fen: number of bytes of pos already consumed
    x, y,            \* Board::from_fen: the cursor
    position,        \* Board::from_fen: [Option<Piece>; 64]
    last_invalid,    \* Board::from_fen: the overflow latch
    boardRes,        \* Result<Board, String> of Board::from_fen, NoResult before it returns
    queue,           \* Game::from_fen: VecDeque<&str> of the fields still to pop
    turn,            \* Game::from_fen locals
    castling,
    fifty_move_rule,
    gameRes,         \* Result<Game, Box<dyn Error>> of Game::from_fen, NoResult before it returns
    overflow_checks  \* the build: TRUE when arithmetic overflow panics (debug), FALSE when it wraps

vars == <<overflow_checks, fen, pc, pos, i, x, y, position, last_invalid, boardRes,
          queue, turn, castling, fifty_move_rule, gameRes>>

-----------------------------------------------------------------------------
(* Bounds of the explored inputs *)

\* longest free suffix appended to a placement prefix
MaxTail == 3
\* number of ranks of an 8-rank placement that differ from "8"
MaxVaried == 1

-----------------------------------------------------------------------------
(* Option, Result and error values *)

None == <<>>
Some(v) == <<v>>

\* An error message: the format string, the characters and the numbers it
\* is formatted with.
Err(msg, chars, nums) == [tag |-> "Err", msg |-> msg, chars |-> chars, nums |-> nums]

\* the value of a result variable before the function has returned
NoResult == [tag |-> "None"]

IsErr(r) == r.tag = "Err"
IsOk(r) == r.tag = "Ok"

Piece(piece, color) == [piece |-> piece, color |-> color]

-----------------------------------------------------------------------------
(* ASCII helpers of the standard library *)

UpperLetters == <<"A","B","C","D","E","F","G","H","I","J","K","L","M",
                  "N","O","P","Q","R","S","T","U","V","W","X","Y","Z">>
LowerLetters == <<"a","b","c","d","e","f","g","h","i","j","k","l","m",
                  "n","o","p","q","r","s","t","u","v","w","x","y","z">>
DecimalDigits == <<"0","1","2","3","4","5","6","7","8","9">>

Range(s) == { s[k] : k \in 1..Len(s) }
IndexOf(s, c) == CHOOSE k \in 1..Len(s) : s[k] = c

to_ascii_lowercase(c) ==
    IF c \in Range(UpperLetters) THEN LowerLetters[IndexOf(UpperLetters, c)] ELSE c

is_ascii_lowercase(c) == c \in Range(LowerLetters)

\* str::split(sep): the fields between separators; never empty, "" gives [""]
RECURSIVE Split(_, _)
Split(s, sep) ==
    IF \A k \in 1..Len(s) : s[k] # sep
    THEN <<s>>
    ELSE LET k == CHOOSE k \in 1..Len(s) :
                      s[k] = sep /\ \A j \in 1..(k - 1) : s[j] # sep
         IN  <<SubSeq(s, 1, k - 1)>> \o Split(SubSeq(s, k + 1, Len(s)), sep)

\* VecDeque::pop_front
pop_front(q) ==
    IF q = <<>> THEN [value |-> None, rest |-> q]
    ELSE [value |-> Some(Head(q)), rest |-> Tail(q)]

\* usize: UsizeBits bits, held as 16-bit limbs, least significant first
UsizeBits == 64
Base == 256 * 256
Limbs == UsizeBits \div 16

\* the usize of a small number n < Base * Base
usize(n) == <<n % Base, n \div Base>> \o [k \in 1..(Limbs - 2) |-> 0]

\* v * m + c for small m and c, exactly: the limbs of v, then the carry out
RECURSIVE MulAdd(_, _, _)
MulAdd(v, m, c) ==
    IF v = <<>> THEN <<c>>
    ELSE LET t == v[1] * m + c
         IN  <<t % Base>> \o MulAdd(Tail(v), m, t \div Base)

\* usize::checked_mul(m) followed by checked_add(c): None on overflow
checked_mul_add(v, m, c) ==
    LET r == MulAdd(v, m, c)
    IN  IF r[Limbs + 1] # 0 THEN None ELSE Some(SubSeq(r, 1, Limbs))

\* v * m + c modulo 2^UsizeBits
wrapping_mul_add(v, m, c) == SubSeq(MulAdd(v, m, c), 1, Limbs)

\* the digit loop of str::parse::<usize>: acc = acc * 10 + digit, checked
RECURSIVE parse_digits(_, _)
parse_digits(digits, acc) ==
    IF digits = <<>> THEN [tag |-> "Ok", value |-> acc]
    ELSE LET next == checked_mul_add(acc, 10, IndexOf(DecimalDigits, Head(digits)) - 1)
         IN  IF next = None
             THEN Err("number too large to fit in target type", <<>>, <<>>)
             ELSE parse_digits(Tail(digits), next[1])

\* str::parse::<usize>: an optional '+', then one or more decimal digits
parse_usize(s) ==
    IF s = <<>> THEN Err("cannot parse integer from empty string", <<>>, <<>>)
    ELSE LET digits == IF s[1] = "+" THEN Tail(s) ELSE s
         IN  IF digits = <<>> \/ \E k \in 1..Len(digits) : digits[k] \notin Range(DecimalDigits)
             THEN Err("invalid digit found in string", <<>>, <<>>)
             ELSE parse_digits(digits, usize(0))

-----------------------------------------------------------------------------
(* Board *)

\* c_to_i with the coordinates exchanged
c_to_i_swapped(cx, cy) == cx * 8 + cy

c_to_i(cx, cy) == cy * 8 + cx

\* c_is_valid with the inclusive range 0..=8 for y
c_is_valid_rows(cx, cy) == cx \in 0..7 /\ cy \in 0..8

\* c_is_valid with the inclusive range 0..=8 for x
c_is_valid_inclusive(cx, cy) == cx \in 0..8 /\ cy \in 0..7

c_is_valid(cx, cy) == cx \in 0..7 /\ cy \in 0..7

blank == [k \in 0..63 |-> None]

PieceLetters == {"r", "n", "b", "q", "k", "p"}

PieceTypeOf(l) ==
    CASE l = "r" -> "Rook"
      [] l = "n" -> "Knight"
      [] l = "b" -> "Bishop"
      [] l = "q" -> "Queen"
      [] l = "k" -> "King"
      [] l = "p" -> "Pawn"

\* the digit arm written b'1'..=b'9'
DigitBytes_to9 == <<"1","2","3","4","5","6","7","8","9">>

\* the bytes of the arm b'1'..=b'8'
DigitBytes == <<"1","2","3","4","5","6","7","8">>

\* the arm of a piece letter: the piece, x + 1, y
PieceArm(c, cx, cy) ==
    [ok |-> TRUE,
     maybe_piece |-> Some(Piece(PieceTypeOf(to_ascii_lowercase(c)),
                                IF is_ascii_lowercase(c) THEN "Black" ELSE "White")),
     x |-> cx + 1, y |-> cy]

\* the arm b'/' => (None, 0, y + 1)
SlashArm(c, cx, cy) == [ok |-> TRUE, maybe_piece |-> None, x |-> 0, y |-> cy + 1]

\* the arm b'1'..=b'8' => (None, (c - b'1' + 1) as usize, y)
DigitArm(c, cx, cy) ==
    [ok |-> TRUE, maybe_piece |-> None, x |-> IndexOf(DigitBytes, c), y |-> cy]

\* match c.to_ascii_lowercase() { ... }
MatchByte(c, cx, cy) ==
    LET l == to_ascii_lowercase(c)
    IN  IF l \in PieceLetters THEN PieceArm(c, cx, cy)
        ELSE IF l = "/" THEN SlashArm(c, cx, cy)
        ELSE IF l \in Range(DigitBytes) THEN DigitArm(c, cx, cy)
        ELSE [ok |-> FALSE, maybe_piece |-> None, x |-> cx, y |-> cy]

\* One iteration of `for c in pos.bytes()` on the scanner state st.
\* st.ret is None while the loop goes on and Some(Err(..)) once it returned.
ScanStep(c, st) ==
    LET index == c_to_i(st.x, st.y)
        m == MatchByte(c, st.x, st.y)
    IN  IF ~m.ok
        THEN [st EXCEPT !.ret = Some(Err("Invalid char in FEN", <<>>, <<>>))]
        ELSE IF m.maybe_piece # None /\ st.last_invalid
        THEN [st EXCEPT !.ret = Some(Err("Invalid coordinate reached: {}, {}",
                                         <<>>, <<m.x, m.y>>))]
        ELSE IF m.maybe_piece # None /\ index \notin DOMAIN st.position
        THEN [st EXCEPT !.ret = Some([tag |-> "Panic", msg |-> "index out of bounds",
                                      chars |-> <<>>, nums |-> <<index>>])]
        ELSE [x |-> m.x, y |-> m.y,
              position |-> IF m.maybe_piece # None
                           THEN [st.position EXCEPT ![index] = m.maybe_piece]
                           ELSE st.position,
              last_invalid |-> ~c_is_valid(m.x, m.y),
              ret |-> None]

\* the state of the scanner before the first byte
ScanInit == [x |-> 0, y |-> 0, position |-> blank, last_invalid |-> FALSE, ret |-> None]

RECURSIVE ScanFrom(_, _)
ScanFrom(bytes, st) ==
    IF bytes = <<>> \/ st.ret # None THEN st
    ELSE ScanFrom(Tail(bytes), ScanStep(Head(bytes), st))

\* Board::from_fen as a function of its argument
Board_from_fen(s) ==
    LET front == pop_front(Split(s, " "))
    IN  IF front.value = None THEN Err("No FEN?", <<>>, <<>>)
        ELSE LET st == ScanFrom(front.value[1], ScanInit)
             IN  IF st.ret # None THEN st.ret[1]
                 ELSE [tag |-> "Ok", position |-> st.position]

-----------------------------------------------------------------------------
(* Game *)

\* let turn = match fen.pop_front() { ... }
match_turn(front) ==
    IF front # None /\ front[1] # <<"b">> /\ front[1] # <<"w">>
    THEN Err("Invalid turn specifier", <<>>, <<>>)
    ELSE IF front # None /\ front[1] = <<"b">>
    THEN [tag |-> "Ok", value |-> "Black"]
    ELSE [tag |-> "Ok", value |-> "White"]

\* a castling alphabet of every letter a field of the inputs uses
CastlingChars_letters == {"K", "Q", "k", "q", "w", "b", "x"}

\* the characters "KQkq".contains(c) accepts
CastlingChars == {"K", "Q", "k", "q"}

\* for c in part.chars() { ... }: acc is the vector built so far
RECURSIVE castling_loop(_, _)
castling_loop(part, acc) ==
    IF part = <<>> THEN [tag |-> "Ok", value |-> acc]
    ELSE IF Head(part) \in CastlingChars
    THEN castling_loop(Tail(part), Append(acc, Head(part)))
    ELSE Err("Invalid char in castling part: {}", <<Head(part)>>, <<>>)

\* let castling = match fen.pop_front() { ... }
match_castling(front) ==
    IF front = Some(<<"-">>) THEN [tag |-> "Ok", value |-> <<>>]
    ELSE IF front # None THEN castling_loop(front[1], <<>>)
    ELSE [tag |-> "Ok", value |-> <<"K", "Q", "k", "q">>]

\* fen.pop_front().unwrap_or("0").parse()
parse_counter(front) == parse_usize(IF front = None THEN <<"0">> ELSE front[1])

\* the thread panics: no value is returned
Panic(msg) == [tag |-> "Panic", msg |-> msg, chars |-> <<>>, nums |-> <<>>]

\* let half_turn_num = match turn { ... }: full_turn_num * 2 (+ 1) in usize
\* arithmetic; an overflow panics when the build checks overflow and wraps
\* otherwise
half_turn_num(t, full_turn_num) ==
    LET plus == IF t = "Black" THEN 1 ELSE 0
    IN  IF checked_mul_add(full_turn_num, 2, plus) = None /\ overflow_checks
        THEN Panic("attempt to multiply with overflow")
        ELSE [tag |-> "Ok", value |-> wrapping_mul_add(full_turn_num, 2, plus)]

\* the rest of Game::from_fen once full_turn_num is parsed: Ok(Self { ... })
Game(board, t, full_turn_num, fifty, cast) ==
    LET half == half_turn_num(t, full_turn_num)
    IN  IF ~IsOk(half) THEN half
        ELSE [tag |-> "Ok",
              board |-> board,
              turn |-> t,
              start_turn |-> full_turn_num,
              half_turn_num |-> half.value,
              full_turn_num |-> full_turn_num,
              fifty_move_rule |-> fifty,
              castling |-> cast]

\* Game::from_fen as a function of its argument
Game_from_fen(s) ==
    LET b == Board_from_fen(s)
        q0 == Split(s, " ")
        f1 == pop_front(q0)
        t == match_turn(f1.value)
        f2 == pop_front(f1.rest)
        c == match_castling(f2.value)
        f3 == pop_front(f2.rest)
        f4 == pop_front(f3.rest)
        fifty == parse_counter(f4.value)
        f5 == pop_front(f4.rest)
        full == parse_counter(f5.value)
    IN  IF ~IsOk(b) THEN b
        ELSE IF ~IsOk(t) THEN t
        ELSE IF ~IsOk(c) THEN c
        ELSE IF ~IsOk(fifty) THEN fifty
        ELSE IF ~IsOk(full) THEN full
        ELSE Game(b.position, t.value, full.value, fifty.value, c.value)

-----------------------------------------------------------------------------
(* The inputs explored *)

RECURSIVE Join(_, _)
Join(fields, sep) ==
    IF Len(fields) = 0 THEN <<>>
    ELSE IF Len(fields) = 1 THEN fields[1]
    ELSE fields[1] \o <<sep>> \o Join(Tail(fields), sep)

\* ranks of 8 squares
Ranks ==
    { <<"r","3","k","2","r">>,
      <<"r","n","b","q","k","b","n","r">>,
      <<"4","K","3">>,
      <<"1","p","1","p","1","p","1","p">>,
      <<"P","P","P","P","P","P","2">>,
      <<"7","n">> }

EmptyRank == <<"8">>

\* 8-rank placements in which at most MaxVaried ranks are not "8"
Placements8 ==
    UNION { { Join([r \in 1..8 |-> IF r \in S THEN g[r] ELSE EmptyRank], "/") :
              g \in [S -> Ranks] } :
            S \in { T \in SUBSET (1..8) : Cardinality(T) <= MaxVaried } }

StartPlacement ==
    Join(<< <<"r","n","b","q","k","b","n","r">>, <<"p","p","p","p","p","p","p","p">>,
            EmptyRank, EmptyRank, EmptyRank, EmptyRank,
            <<"P","P","P","P","P","P","P","P">>, <<"R","N","B","Q","K","B","N","R">> >>, "/")

\* short and malformed placements: a prefix that brings the cursor near an
\* edge of the board, then any string of at most MaxTail bytes
TailAlphabet == {"p", "K", "/", "8", "3", "z", "9"}

Prefixes ==
    { <<>>,
      <<"/","/","/","/","/","/","/">>,
      <<"p","p","p","p","p","p","p">> }

Tails == UNION { [1..n -> TailAlphabet] : n \in 0..MaxTail }

PlacementsFree == { p \o t : p \in Prefixes, t \in Tails }

\* the fields after the placement of a complete FEN
StandardTail == << <<"w">>, <<"K","Q","k","q">>, <<"-">>, <<"0">>, <<"1">> >>

\* decimal strings around the largest usize: 2^63, 2^64 - 1 and 2^64
HalfRange == <<"9","2","2","3","3","7","2","0","3","6","8","5","4","7","7","5","8","0","8">>
UsizeMax == <<"1","8","4","4","6","7","4","4","0","7","3","7","0","9","5","5","1","6","1","5">>
PastUsizeMax == <<"1","8","4","4","6","7","4","4","0","7","3","7","0","9","5","5","1","6","1","6">>

\* values tried for the fields 2..6
Field2 == { <<"w">>, <<"b">>, <<"x">>, <<"-">>, <<"K","Q">>, <<"K","K">>, <<>> }
Field3 == { <<"-">>, <<"K","Q","k","q">>, <<"K","Q","k","q","X">>, <<>> }
Field4 == { <<"-">>, <<"e","3">>, <<"0">> }
Field5 == { <<"0">>, <<"7">>, <<"a","b","c">>, <<"-">>, HalfRange, UsizeMax, PastUsizeMax }
Field6 == { <<"1">>, <<"1","2">>, <<"a","b","c">>, <<"+","3">>, HalfRange }

FieldTails ==
    { <<>> }
    \cup { <<a>> : a \in Field2 }
    \cup { <<a, b>> : a \in Field2, b \in Field3 }
    \cup { <<a, b, c>> : a \in Field2, b \in Field3, c \in Field4 }
    \cup { <<a, b, c, d>> : a \in Field2, b \in Field3, c \in Field4, d \in Field5 }
    \cup { <<a, b, c, d, e>> : a \in Field2, b \in Field3, c \in Field4,
                               d \in Field5, e \in Field6 }

\* placements combined with every choice of the other fields: two that
\* decode and one that does not
PlacementsFew == { <<"b">>, <<"B">>, <<"8","p">> }

\* the empty board, combined with complete fields
EmptyBoard == Join([r \in 1..8 |-> EmptyRank], "/")

CompleteTails ==
    { << <<"w">>, c, <<"-">>, <<"0">>, n >> : c \in Field3, n \in Field6 }

\* the empty string, the placements alone and with the standard fields, and
\* a few placements with every choice of fields
Inputs ==
    { <<>> }
    \cup { Join(<<p>> \o t, " ") :
             p \in (Placements8 \cup PlacementsFree \cup {StartPlacement}) \ { <<>> },
             t \in {<<>>, StandardTail} }
    \cup { Join(<<p>> \o t, " ") : p \in PlacementsFew, t \in FieldTails }
    \cup { Join(<<EmptyBoard>> \o t, " ") : t \in CompleteTails }

-----------------------------------------------------------------------------
(* The call Game::from_fen(fen), step by step *)

Init ==
    /\ fen \in Inputs
    /\ overflow_checks \in BOOLEAN
    /\ pc = "Board::from_fen"
    /\ pos = <<>>
    /\ i = 0
    /\ x = 0
    /\ y = 0
    /\ position = blank
    /\ last_invalid = FALSE
    /\ boardRes = NoResult
    /\ queue = <<>>
    /\ turn = "White"
    /\ castling = <<>>
    /\ fifty_move_rule = usize(0)
    /\ gameRes = NoResult

\* Board::from_fen, up to the loop: split the string and pop the placement
BoardStart ==
    /\ pc = "Board::from_fen"
    /\ LET front == pop_front(Split(fen, " "))
       IN  IF front.value = None
           THEN /\ boardRes' = Err("No FEN?", <<>>, <<>>)
                /\ pc' = "Board::return"
                /\ pos' = pos
           ELSE /\ pos' = front.value[1]
                /\ pc' = "scan"
                /\ boardRes' = boardRes
    /\ i' = 0
    /\ x' = ScanInit.x
    /\ y' = ScanInit.y
    /\ position' = ScanInit.position
    /\ last_invalid' = ScanInit.last_invalid
    /\ UNCHANGED <<overflow_checks, fen, queue, turn, castling, fifty_move_rule, gameRes>>

\* one iteration of the loop over pos.bytes()
ScanByte ==
    /\ pc = "scan"
    /\ i < Len(pos)
    /\ LET st == ScanStep(pos[i + 1], [x |-> x, y |-> y, position |-> position,
                                       last_invalid |-> last_invalid, ret |-> None])
       IN  /\ x' = st.x
           /\ y' = st.y
           /\ position' = st.position
           /\ last_invalid' = st.last_invalid
           /\ IF st.ret # None
              THEN /\ boardRes' = st.ret[1]
                   /\ pc' = "Board::return"
                   /\ i' = i
              ELSE /\ boardRes' = boardRes
                   /\ pc' = pc
                   /\ i' = i + 1
    /\ UNCHANGED <<overflow_checks, fen, pos, queue, turn, castling, fifty_move_rule, gameRes>>

\* the loop is over: Ok(Self { position })
ScanEnd ==
    /\ pc = "scan"
    /\ i = Len(pos)
    /\ boardRes' = [tag |-> "Ok", position |-> position]
    /\ pc' = "Board::return"
    /\ UNCHANGED <<overflow_checks, fen, pos, i, x, y, position, last_invalid,
                   queue, turn, castling, fifty_move_rule, gameRes>>

\* Board::from_fen(fen) without the `?`: the error is dropped and the fields
\* are read all the same
BoardReturn_unchecked ==
    /\ pc = "Board::return"
    /\ queue' = Split(fen, " ")
    /\ pc' = "turn"
    /\ gameRes' = gameRes
    /\ UNCHANGED <<overflow_checks, fen, pos, i, x, y, position, last_invalid, boardRes,
                   turn, castling, fifty_move_rule>>

\* let board = Board::from_fen(fen)?; then split the string again
BoardReturn ==
    /\ pc = "Board::return"
    /\ IF IsOk(boardRes)
       THEN /\ queue' = Split(fen, " ")
            /\ pc' = "turn"
            /\ gameRes' = gameRes
       ELSE /\ gameRes' = boardRes
            /\ pc' = "done"
            /\ queue' = queue
    /\ UNCHANGED <<overflow_checks, fen, pos, i, x, y, position, last_invalid, boardRes,
                   turn, castling, fifty_move_rule>>

\* whose turn it is to play
GameTurn ==
    /\ pc = "turn"
    /\ LET front == pop_front(queue)
           t == match_turn(front.value)
       IN  /\ queue' = front.rest
           /\ IF IsOk(t)
              THEN /\ turn' = t.value
                   /\ pc' = "castling"
                   /\ gameRes' = gameRes
              ELSE /\ gameRes' = t
                   /\ pc' = "done"
                   /\ turn' = turn
    /\ UNCHANGED <<overflow_checks, fen, pos, i, x, y, position, last_invalid, boardRes,
                   castling, fifty_move_rule>>

GameCastling ==
    /\ pc = "castling"
    /\ LET front == pop_front(queue)
           c == match_castling(front.value)
       IN  /\ queue' = front.rest
           /\ IF IsOk(c)
              THEN /\ castling' = c.value
                   /\ pc' = "en_passant"
                   /\ gameRes' = gameRes
              ELSE /\ gameRes' = c
                   /\ pc' = "done"
                   /\ castling' = castling
    /\ UNCHANGED <<overflow_checks, fen, pos, i, x, y, position, last_invalid, boardRes,
                   turn, fifty_move_rule>>

\* let _en_passant_square = fen.pop_front();
GameEnPassant ==
    /\ pc = "en_passant"
    /\ queue' = pop_front(queue).rest
    /\ pc' = "fifty_move_rule"
    /\ UNCHANGED <<overflow_checks, fen, pos, i, x, y, position, last_invalid, boardRes,
                   turn, castling, fifty_move_rule, gameRes>>

GameFifty ==
    /\ pc = "fifty_move_rule"
    /\ LET front == pop_front(queue)
           n == parse_counter(front.value)
       IN  /\ queue' = front.rest
           /\ IF IsOk(n)
              THEN /\ fifty_move_rule' = n.value
                   /\ pc' = "full_turn_num"
                   /\ gameRes' = gameRes
              ELSE /\ gameRes' = n
                   /\ pc' = "done"
                   /\ fifty_move_rule' = fifty_move_rule
    /\ UNCHANGED <<overflow_checks, fen, pos, i, x, y, position, last_invalid, boardRes,
                   turn, castling>>

\* the fullmove number, the derived half_turn_num and the Game returned
GameFull ==
    /\ pc = "full_turn_num"
    /\ LET front == pop_front(queue)
           n == parse_counter(front.value)
       IN  /\ queue' = front.rest
           /\ gameRes' = IF IsOk(n)
                         THEN Game(boardRes.position, turn, n.value,
                                   fifty_move_rule, castling)
                         ELSE n
    /\ pc' = "done"
    /\ UNCHANGED <<overflow_checks, fen, pos, i, x, y, position, last_invalid, boardRes,
                   turn, castling, fifty_move_rule>>

Next ==
    \/ BoardStart
    \/ ScanByte
    \/ ScanEnd
    \/ BoardReturn
    \/ GameTurn
    \/ GameCastling
    \/ GameEnPassant
    \/ GameFifty
    \/ GameFull

Spec == Init /\ [][Next]_vars

-----------------------------------------------------------------------------
(* Vocabulary of the properties *)

\* the space-separated fields of the input, field 1 first
Fields == Split(fen, " ")

AllIn(s, S) == \A k \in 1..Len(s) : s[k] \in S

\* the number a decimal string denotes, exactly: Limbs + 1 limbs
RECURSIVE DecimalValue(_)
DecimalValue(s) ==
    IF s = <<>> THEN usize(0) \o <<0>>
    ELSE SubSeq(MulAdd(DecimalValue(SubSeq(s, 1, Len(s) - 1)), 10,
                       IndexOf(DecimalDigits, s[Len(s)]) - 1), 1, Limbs + 1)

\* the number a usize holds, on Limbs + 1 limbs
Exact(v) == v \o <<0>>

\* a decimal number: one or more digits
IsDecimal(s) == s # <<>> /\ AllIn(s, Range(DecimalDigits))

IsTurnField(s) == s = <<"w">> \/ s = <<"b">>
IsCastlingField(s) == s = <<"-">> \/ AllIn(s, {"K", "Q", "k", "q"})

FirstOutside(s, S) == s[CHOOSE k \in 1..Len(s) : s[k] \notin S /\ AllIn(SubSeq(s, 1, k - 1), S)]

HasMsg(r, msg) == IsErr(r) /\ r.msg = msg

IsNumericParseError(r) ==
    \/ HasMsg(r, "invalid digit found in string")
    \/ HasMsg(r, "cannot parse integer from empty string")
    \/ HasMsg(r, "number too large to fit in target type")

\* the characters a placement field may hold
PieceBytes == {"r", "n", "b", "q", "k", "p", "R", "N", "B", "Q", "K", "P"}
RunBytes == {"1", "2", "3", "4", "5", "6", "7", "8"}
PlacementBytes == PieceBytes \cup RunBytes \cup {"/"}

RunLength(c) == IndexOf(DecimalDigits, c) - 1

InBoard(cx, cy) == 0 <= cx /\ cx < 8 /\ 0 <= cy /\ cy < 8

\* the number of squares a rank names
RECURSIVE RankWidth(_)
RankWidth(rank) ==
    IF rank = <<>> THEN 0
    ELSE (IF Head(rank) \in RunBytes THEN RunLength(Head(rank)) ELSE 1)
         + RankWidth(Tail(rank))

\* 8 ranks of exactly 8 squares each
IsFullPlacement(p) ==
    LET ranks == Split(p, "/")
    IN  /\ Len(ranks) = 8
        /\ \A r \in 1..8 : AllIn(ranks[r], PieceBytes \cup RunBytes) /\ RankWidth(ranks[r]) = 8

\* the piece a letter of the notation names
NamedPiece(c) ==
    Piece(CASE c \in {"r", "R"} -> "Rook"
            [] c \in {"n", "N"} -> "Knight"
            [] c \in {"b", "B"} -> "Bishop"
            [] c \in {"q", "Q"} -> "Queen"
            [] c \in {"k", "K"} -> "King"
            [] c \in {"p", "P"} -> "Pawn",
          IF c \in {"R", "N", "B", "Q", "K", "P"} THEN "White" ELSE "Black")

\* what a rank names for its column col
RECURSIVE CellOfRank(_, _)
CellOfRank(rank, col) ==
    IF rank = <<>> THEN None
    ELSE IF Head(rank) \in RunBytes
    THEN IF col < RunLength(Head(rank)) THEN None
         ELSE CellOfRank(Tail(rank), col - RunLength(Head(rank)))
    ELSE IF col = 0 THEN Some(NamedPiece(Head(rank)))
         ELSE CellOfRank(Tail(rank), col - 1)

\* what a full placement names for the cell idx
NamedCell(p, idx) == CellOfRank(Split(p, "/")[(idx \div 8) + 1], idx % 8)

\* Board::from_fen returned a board for a placement field that is not empty
PlacementDecoded == IsOk(boardRes) /\ pos # <<>>

\* both calls end the same way
SameOutcome(a, b) == a.tag = b.tag /\ a = b

-----------------------------------------------------------------------------
(* Properties *)

\* C1: when the (non-empty) placement decodes, field 2 "w" gives turn White, "b" gives
\* turn Black, any other present field 2 gives the invalid-turn error, and
\* an absent field 2 gives a Game with turn White.
C1_ActiveColourDecoded ==
    (pc = "done" /\ PlacementDecoded) =>
        IF Len(Fields) < 2
        THEN IsOk(gameRes) /\ gameRes.turn = "White"
        ELSE IF Fields[2] = <<"w">>
        THEN /\ ~HasMsg(gameRes, "Invalid turn specifier")
             /\ IsOk(gameRes) => gameRes.turn = "White"
        ELSE IF Fields[2] = <<"b">>
        THEN /\ ~HasMsg(gameRes, "Invalid turn specifier")
             /\ IsOk(gameRes) => gameRes.turn = "Black"
        ELSE HasMsg(gameRes, "Invalid turn specifier")

\* C2: a complete well-formed six-field FEN decodes to a Game whose board is
\* the decoded placement, whose turn, castling, fifty_move_rule and
\* full_turn_num are those of fields 2, 3, 5 and 6; the empty board
\* "8/8/8/8/8/8/8/8 w - - 0 1" gives half_turn_num 2.
C2_WellFormedFenDecoded ==
    (/\ pc = "done"
     /\ PlacementDecoded
     /\ Len(Fields) = 6
     /\ IsTurnField(Fields[2])
     /\ IsCastlingField(Fields[3])
     /\ IsDecimal(Fields[5])
     /\ IsDecimal(Fields[6])) =>
        /\ IsOk(gameRes)
        /\ gameRes.board = boardRes.position
        /\ gameRes.turn = (IF Fields[2] = <<"w">> THEN "White" ELSE "Black")
        /\ gameRes.castling = (IF Fields[3] = <<"-">> THEN <<>> ELSE Fields[3])
        /\ Exact(gameRes.fifty_move_rule) = DecimalValue(Fields[5])
        /\ Exact(gameRes.full_turn_num) = DecimalValue(Fields[6])
        /\ (Fields[2] = <<"w">> /\ Fields[6] = <<"1">>) => gameRes.half_turn_num = usize(2)

\* C3: a placement of 8 ranks of exactly 8 squares decodes to the board
\* whose cell y*8+x holds what the field names for column x of rank y.
C3_FullPlacementDecoded ==
    (pc = "Board::return" /\ IsFullPlacement(pos)) =>
        /\ IsOk(boardRes)
        /\ \A idx \in 0..63 : boardRes.position[idx] = NamedCell(pos, idx)

\* C4: reading a digit d with the cursor at (x, y) moves the cursor to
\* (x + d, y) and changes no cell.
C4_DigitAdvancesCursor ==
    [][(pc = "scan" /\ i < Len(pos) /\ pos[i + 1] \in RunBytes) =>
          /\ x' = x + RunLength(pos[i + 1])
          /\ y' = y
          /\ position' = position]_vars

\* C5: two inputs that differ only in field 4 end the same way, with the
\* same error or with equal Games.
C5_EnPassantIgnored ==
    (pc = "done" /\ Len(Fields) >= 4) =>
        \A other \in Field4 :
            SameOutcome(Game_from_fen(Join([Fields EXCEPT ![4] = other], " ")), gameRes)

\* C6: with a decodable placement and a valid turn field, a field 3 with a
\* character outside KQkq fails naming the first such character, an absent
\* field 3 gives castling KQkq, and "-" gives empty castling.
C6_CastlingDecoded ==
    (pc = "done" /\ PlacementDecoded /\ Len(Fields) >= 2 /\ IsTurnField(Fields[2])) =>
        IF Len(Fields) = 2
        THEN IsOk(gameRes) /\ gameRes.castling = <<"K", "Q", "k", "q">>
        ELSE IF Fields[3] = <<"-">>
        THEN /\ ~HasMsg(gameRes, "Invalid char in castling part: {}")
             /\ IsOk(gameRes) => gameRes.castling = <<>>
        ELSE IF ~IsCastlingField(Fields[3])
        THEN /\ HasMsg(gameRes, "Invalid char in castling part: {}")
             /\ gameRes.chars = <<FirstOutside(Fields[3], {"K", "Q", "k", "q"})>>
        ELSE TRUE

\* C7: with valid fields 1-3, a present field 5 or 6 that is not a decimal
\* number fails with the numeric-parse error; otherwise the counters are
\* the values of the fields, and 0 for an absent field.
C7_CountersDecoded ==
    (/\ pc = "done"
     /\ PlacementDecoded
     /\ Len(Fields) >= 3
     /\ IsTurnField(Fields[2])
     /\ IsCastlingField(Fields[3])
     /\ \A k \in {5, 6} : Len(Fields) >= k => (Fields[k] = <<>> \/ Fields[k][1] # "+")) =>
        IF \E k \in {5, 6} : Len(Fields) >= k /\ ~IsDecimal(Fields[k])
        THEN IsNumericParseError(gameRes)
        ELSE /\ IsOk(gameRes)
             /\ Exact(gameRes.fifty_move_rule) =
                    (IF Len(Fields) >= 5 THEN DecimalValue(Fields[5]) ELSE DecimalValue(<<"0">>))
             /\ Exact(gameRes.full_turn_num) =
                    (IF Len(Fields) >= 6 THEN DecimalValue(Fields[6]) ELSE DecimalValue(<<"0">>))

\* C8: the empty string has no placement field: Board::from_fen and
\* Game::from_fen both fail with "No FEN?" and return no board and no Game.
C8_EmptyFenIsMissingField ==
    fen = <<>> =>
        /\ boardRes # NoResult => HasMsg(boardRes, "No FEN?")
        /\ gameRes # NoResult => HasMsg(gameRes, "No FEN?")

\* C9: a piece letter read with the cursor outside the board fails with
\* "Invalid coordinate reached" and writes nothing; a piece letter read with
\* the cursor inside the board never gives that error; a piece written at
\* column 7 may be followed by '/' or by the end of the field.
C9_OverflowLatch ==
    [][/\ (pc = "scan" /\ i < Len(pos) /\ pos[i + 1] \in PieceBytes /\ ~InBoard(x, y)) =>
              /\ HasMsg(boardRes', "Invalid coordinate reached: {}, {}")
              /\ position' = position
       /\ (pc = "scan" /\ i < Len(pos) /\ pos[i + 1] \in PieceBytes /\ InBoard(x, y)) =>
              ~HasMsg(boardRes', "Invalid coordinate reached: {}, {}")
       /\ (pc = "scan" /\ i >= 1 /\ pos[i] \in PieceBytes /\ x = 8) =>
              /\ (i < Len(pos) /\ pos[i + 1] = "/") => ~IsErr(boardRes')
              /\ i = Len(pos) => IsOk(boardRes')]_vars

\* a piece letter was read with the cursor just past column 7 and rejected
C9_Witness ==
    /\ pc = "Board::return"
    /\ HasMsg(boardRes, "Invalid coordinate reached: {}, {}")
    /\ x = 8
    /\ pos[i + 1] \in PieceBytes

\* C10 as stated: a byte outside the placement alphabet fails the scan
\* with an error that names the byte.
C10_InvalidCharNamed ==
    [][(pc = "scan" /\ i < Len(pos) /\ pos[i + 1] \notin PlacementBytes) =>
          /\ HasMsg(boardRes', "Invalid char in FEN")
          /\ boardRes'.chars = <<pos[i + 1]>>]_vars

\* C10, amended: a byte outside the placement alphabet reached by the scan
\* fails it with the fixed message "Invalid char in FEN", which carries no
\* character, and no board is returned.
C10_InvalidCharRejected ==
    [][(pc = "scan" /\ i < Len(pos) /\ pos[i + 1] \notin PlacementBytes) =>
          /\ pc' = "Board::return"
          /\ HasMsg(boardRes', "Invalid char in FEN")
          /\ boardRes'.chars = <<>>
          /\ boardRes'.nums = <<>>]_vars

\* the scan stopped on a byte outside the alphabet after reading others
C10_Witness ==
    /\ pc = "Board::return"
    /\ i >= 1
    /\ i < Len(pos)
    /\ pos[i + 1] \notin PlacementBytes
    /\ HasMsg(boardRes, "Invalid char in FEN")

\* 2 * full_turn_num, plus 1 for Black, as a number (Limbs + 1 limbs)
ExactHalfTurn(t, full_turn_num) ==
    MulAdd(full_turn_num, 2, IF t = "Black" THEN 1 ELSE 0)

\* C11: in every Game returned, half_turn_num is 2 * full_turn_num + 1 when
\* turn is Black and 2 * full_turn_num when turn is White, and start_turn is
\* full_turn_num.
C11_HalfTurnInvariant ==
    IsOk(gameRes) =>
        /\ Exact(gameRes.half_turn_num) = ExactHalfTurn(gameRes.turn, gameRes.full_turn_num)
        /\ gameRes.start_turn = gameRes.full_turn_num

\* the cells of a board that hold a piece
Occupied(board) == { idx \in DOMAIN board : board[idx] # None }

\* the positions of the piece letters of a placement field
PieceLetterPositions(p) == { k \in 1..Len(p) : p[k] \in PieceBytes }

\* C12: in an accepted placement no piece letter writes a cell an earlier
\* piece letter wrote: the board holds as many pieces as the field has piece
\* letters.
C12_NoOverwrite ==
    (pc = "Board::return" /\ IsOk(boardRes)) =>
        Cardinality(Occupied(boardRes.position)) = Cardinality(PieceLetterPositions(pos))

\* C13: every write goes to an index in 0..63, the scan ends in Ok or Err and
\* never in an out-of-bounds access, and the board always has 64 cells.
C13_IndexSafety ==
    /\ boardRes.tag \in {"None", "Ok", "Err"}
    /\ DOMAIN position = 0..63
    /\ IsOk(boardRes) => DOMAIN boardRes.position = 0..63
    /\ (pc = "scan" /\ i >= 1 /\ pos[i] \in PieceBytes) =>
           /\ c_to_i(x - 1, y) \in 0..63
           /\ position[c_to_i(x - 1, y)] = Some(NamedPiece(pos[i]))

\* a ninth '/' put the cursor below the board and the piece letter that
\* followed was rejected without a write
C13_Witness ==
    /\ pc = "Board::return"
    /\ HasMsg(boardRes, "Invalid coordinate reached: {}, {}")
    /\ y = 8
    /\ Occupied(position) = {}

\* C14: when Board::from_fen fails, Game::from_fen fails with that same
\* error, whatever the other fields hold.
C14_PlacementErrorPropagates ==
    (pc = "done" /\ IsErr(boardRes)) => gameRes = boardRes

\* a placement error came back from an input whose other fields are all there
C14_Witness ==
    /\ pc = "done"
    /\ IsErr(boardRes)
    /\ gameRes = boardRes
    /\ Len(Fields) = 6

\* C15: whatever fullmove value the parser accepted, Game::from_fen returns a
\* Game whose half_turn_num is the number 2 * full_turn_num (+ 1 for Black):
\* the computation neither wraps nor aborts.
C15_HalfTurnNoOverflow ==
    pc = "done" =>
        /\ gameRes.tag # "Panic"
        /\ IsOk(gameRes) =>
               Exact(gameRes.half_turn_num)
                   = ExactHalfTurn(gameRes.turn, gameRes.full_turn_num)

\* C16: every element of the castling of a returned Game is K, Q, k or q.
C16_CastlingAlphabet ==
    IsOk(gameRes) => AllIn(gameRes.castling, {"K", "Q", "k", "q"})

\* a Game came back from a castling field that repeats a character
C16_Witness ==
    /\ IsOk(gameRes)
    /\ gameRes.castling = <<"K", "K">>

\* the squares a placement field describes
RECURSIVE Squares(_)
Squares(ranks) ==
    IF ranks = <<>> THEN 0 ELSE RankWidth(Head(ranks)) + Squares(Tail(ranks))

\* piece letters, digits and '/' only, describing fewer than 64 squares
IsShortPlacement(p) ==
    /\ AllIn(p, PlacementBytes)
    /\ Squares(Split(p, "/")) < 64

\* the columns at which a rank puts its piece letters, read from column col
RECURSIVE ColumnsOf(_, _)
ColumnsOf(rank, col) ==
    IF rank = <<>> THEN {}
    ELSE IF Head(rank) \in RunBytes
    THEN ColumnsOf(Tail(rank), col + RunLength(Head(rank)))
    ELSE {col} \cup ColumnsOf(Tail(rank), col + 1)

\* the coordinates a placement field addresses with a piece letter
Addressed(p) ==
    LET ranks == Split(p, "/")
    IN  UNION { { <<cx, r - 1>> : cx \in ColumnsOf(ranks[r], 0) } : r \in 1..Len(ranks) }

\* C17: a placement of piece letters, digits and '/' that describes fewer
\* than 64 squares and addresses no piece to a coordinate outside the board
\* is decoded, and every cell it addresses no piece to is empty.
C17_ShortPlacementAccepted ==
    (/\ pc = "Board::return"
     /\ IsShortPlacement(pos)
     /\ \A c \in Addressed(pos) : InBoard(c[1], c[2])) =>
        /\ IsOk(boardRes)
        /\ \A cx \in 0..7, cy \in 0..7 :
               <<cx, cy>> \notin Addressed(pos) => boardRes.position[cy * 8 + cx] = None

\* largest coordinate tried
MaxCoord == 9

\* C18: for x and y in 0..7 the index y * 8 + x lies in 0..63 and gives back
\* (x, y) as (idx mod 8, idx div 8); c_is_valid(x, y) is true exactly when
\* both are in 0..7.  Stated of every coordinate up to MaxCoord and of the
\* cursor of the scan.
C18_CoordinateIndexBijection ==
    /\ \A cx \in 0..MaxCoord, cy \in 0..MaxCoord :
           /\ c_is_valid(cx, cy) <=> InBoard(cx, cy)
           /\ InBoard(cx, cy) =>
                  /\ c_to_i(cx, cy) \in 0..63
                  /\ c_to_i(cx, cy) % 8 = cx
                  /\ c_to_i(cx, cy) \div 8 = cy
    /\ c_is_valid(x, y) <=> InBoard(x, y)
    /\ InBoard(x, y) => (c_to_i(x, y) % 8 = x /\ c_to_i(x, y) \div 8 = y)
    /\ \A cx \in 0..7, cy \in 0..7 :
           c_to_i(cx, cy) = c_to_i(x, y) => (InBoard(x, y) => (cx = x /\ cy = y))

\* the last cell of the board was written: the cursor was at (7, 7)
C18_Witness ==
    /\ pc = "scan"
    /\ x = 8
    /\ y = 7
    /\ position[63] # None

====
